---------------------------- MODULE Spec2Model ----------------------------
(***************************************************************************)
(* Model of the supermarket-list Telegram bot                              *)
(* (src/bot_lista_supermercado.py, src/keyboard.py).                       *)
(*                                                                         *)
(* Text is modelled as a sequence of characters.  A character is a         *)
(* one-character string; a character outside ASCII is written by its code *)
(* point ("U+00E3" is a-tilde, "U+1F4DD" the memo emoji).  str.strip,      *)
(* str.lower, str.startswith, the `in` substring test, str.split and the   *)
(* price regular expression are computed on those sequences as Python      *)
(* computes them.                                                          *)
(*                                                                         *)
(* A value a Python function computes once and reads several times is      *)
(* passed on as the parameter of an operator that holds the rest of the    *)
(* function (adicionar_item computes the key, adicionar_nome is the rest   *)
(* of its body), so the model checker too computes it once.                *)
(*                                                                         *)
(* A price is a float in the code.  Every amount the model reads has at    *)
(* most two fractional digits, so a price is kept exactly as an integer    *)
(* number of centavos (4.50 is 450); the sums of the model stay far below  *)
(* the range where a float sum would round differently at two decimals.    *)
(***************************************************************************)
EXTENDS Integers, Sequences, FiniteSets, TLC

VARIABLES
    itens,          \* EstadoUsuario.itens: the dict, in insertion order
    modo_compras,   \* EstadoUsuario.modo_compras
    ult,            \* history: the last operation, its reply and the dict before it
    ant,            \* history: the operation before the last one
    ant2,           \* history: the text of the operation before that
    entrou,         \* history: shopping mode has been on at some time
    user_data,      \* context.user_data of each user: empty, or its "estado"
    sozinho,        \* history: each user's session had it been the only user
    quem,           \* history: the user of the last update
    trocas          \* history: how often the user changed between two updates

vars == <<itens, modo_compras, ult, ant, ant2, entrou, user_data, sozinho, quem, trocas>>

---------------------------------------------------------------------------
(* Python string primitives on sequences of characters                    *)

\* str.isspace for one character (the whitespace the inputs can hold)
IsSpace(c) == c \in {" ", "\t", "\n"}

IsDigit(c) == c \in {"0", "1", "2", "3", "4", "5", "6", "7", "8", "9"}

DigitVal(c) ==
    CASE c = "0" -> 0 [] c = "1" -> 1 [] c = "2" -> 2 [] c = "3" -> 3
      [] c = "4" -> 4 [] c = "5" -> 5 [] c = "6" -> 6 [] c = "7" -> 7
      [] c = "8" -> 8 [] c = "9" -> 9

\* the uppercase characters of the texts and, at the same place, their
\* lowercase ("U+00C3" is A-tilde, "U+00C7" C-cedilla, "U+00CA" E-circumflex)
Maiusculas ==
    <<"A", "B", "C", "D", "E", "F", "G", "H", "I", "J", "K", "L", "M",
      "N", "O", "P", "Q", "R", "S", "T", "U", "V", "W", "X", "Y", "Z",
      "U+00C3", "U+00C7", "U+00CA">>

Minusculas ==
    <<"a", "b", "c", "d", "e", "f", "g", "h", "i", "j", "k", "l", "m",
      "n", "o", "p", "q", "r", "s", "t", "u", "v", "w", "x", "y", "z",
      "U+00E3", "U+00E7", "U+00EA">>

\* the lowercase of each uppercase character
LowerTab ==
    [c \in {Maiusculas[i] : i \in 1..Len(Maiusculas)} |->
        Minusculas[CHOOSE i \in 1..Len(Maiusculas) : Maiusculas[i] = c]]

LowerChar(c) == IF c \in DOMAIN LowerTab THEN LowerTab[c] ELSE c

\* str.lower()
lower(s) == [i \in 1..Len(s) |-> LowerChar(s[i])]

\* the first position from j on that is not whitespace (Len(s) + 1 when
\* there is none)
primeiro_nao_branco(s, j) ==
    LET f[k \in 1..(Len(s) + 1)] ==
            IF k <= Len(s) /\ IsSpace(s[k]) THEN f[k + 1] ELSE k
    IN  f[j]

\* the first position from j on that is whitespace (Len(s) + 1 when there
\* is none)
primeiro_branco(s, j) ==
    LET f[k \in 1..(Len(s) + 1)] ==
            IF k <= Len(s) /\ ~IsSpace(s[k]) THEN f[k + 1] ELSE k
    IN  f[j]

\* the last position up to j that is not whitespace (0 when there is none)
fim_texto(texto, j) ==
    LET fim[k \in 0..Len(texto)] ==
            IF k >= 1 /\ IsSpace(texto[k]) THEN fim[k - 1] ELSE k
    IN  fim[j]

\* str.strip(): drops the leading and the trailing whitespace
strip(s) == SubSeq(s, primeiro_nao_branco(s, 1), fim_texto(s, Len(s)))

\* str.startswith(p)
startswith(s, p) == Len(p) <= Len(s) /\ SubSeq(s, 1, Len(p)) = p

\* the substring test `p in s`
contains(s, p) ==
    \E i \in 1..(Len(s) - Len(p) + 1) : SubSeq(s, i, i + Len(p) - 1) = p

\* str.replace(",", ".")
replace_virgula(s) == [i \in 1..Len(s) |-> IF s[i] = "," THEN "." ELSE s[i]]

\* the word that starts at position a and ends before position f, and the
\* rest of the text after the whitespace that follows it
split_palavra(s, a, f) ==
    IF primeiro_nao_branco(s, f) > Len(s) THEN <<SubSeq(s, a, f - 1)>>
    ELSE <<SubSeq(s, a, f - 1), SubSeq(s, primeiro_nao_branco(s, f), Len(s))>>

\* the split of a text whose first word starts at position a
split_de(s, a) ==
    IF a > Len(s) THEN <<>> ELSE split_palavra(s, a, primeiro_branco(s, a))

\* str.split(maxsplit=1): the first word and, when there is one, the rest
\* of the text after the run of whitespace that follows it
split1(s) == split_de(s, primeiro_nao_branco(s, 1))

\* " ".join(args)
join(args) ==
    LET junta[k \in 0..Len(args)] ==
            IF k = 0 THEN <<>>
            ELSE IF k = 1 THEN args[1]
            ELSE junta[k - 1] \o <<" ">> \o args[k]
    IN  junta[Len(args)]

---------------------------------------------------------------------------
(* The price pattern  (\d+[.,]\d+|\d+)\s*$  of marcar_item_comprado        *)

\* the first position of the run of digits that ends at position j
\* (j + 1 when texto[j] is no digit)
inicio_digitos(texto, j) ==
    LET ini[k \in 0..Len(texto)] ==
            IF k >= 1 /\ IsDigit(texto[k]) THEN ini[k - 1] ELSE k + 1
    IN  ini[j]

\* the start of the match, for a the start of the run of digits that ends
\* at fim, the last position that is not whitespace
match_em(texto, a, fim) ==
    IF a > fim THEN 0
    ELSE IF a >= 3 /\ texto[a - 1] \in {".", ","} /\ IsDigit(texto[a - 2])
    THEN inicio_digitos(texto, a - 2)
    ELSE a

\* re.search: the leftmost position where the pattern matches up to the end
\* of the text (0 when it matches nowhere).  \s*$ takes the trailing
\* whitespace, so the group ends at the last character that is not
\* whitespace and that character is a digit; the group is the run of
\* digits that ends there, with, when a "." or "," and a digit come right
\* before that run, the separator and the run of digits before it.  The
\* search is leftmost, so the longer group is the match.
match_start(texto) ==
    match_em(texto, inicio_digitos(texto, fim_texto(texto, Len(texto))),
             fim_texto(texto, Len(texto)))

\* match.group(1), for the match that starts at position m
match_group(texto, m) == SubSeq(texto, m, fim_texto(texto, Len(texto)))

\* the number a run of digits writes
IntVal(w) ==
    LET val[k \in 0..Len(w)] ==
            IF k = 0 THEN 0 ELSE 10 * val[k - 1] + DigitVal(w[k])
    IN  val[Len(w)]

\* the position of the "." of a number (0 when it has none)
posicao_ponto(preco_str) ==
    LET pos[k \in 1..(Len(preco_str) + 1)] ==
            IF k > Len(preco_str) THEN 0
            ELSE IF preco_str[k] = "." THEN k ELSE pos[k + 1]
    IN  pos[1]

\* the fractional digits of a number, as two digits
dois_digitos(frac) ==
    IF Len(frac) = 1 THEN frac \o <<"0">> ELSE SubSeq(frac, 1, 2)

\* the centavos of a number whose "." is at position k
centavos_de(preco_str, k) ==
    IF k = 0 THEN 100 * IntVal(preco_str)
    ELSE 100 * IntVal(SubSeq(preco_str, 1, k - 1))
         + IntVal(dois_digitos(SubSeq(preco_str, k + 1, Len(preco_str))))

\* float(preco_str), in centavos: the integer part, and the first two
\* fractional digits (the amounts of the model have no more)
float_centavos(preco_str) == centavos_de(preco_str, posicao_ponto(preco_str))

---------------------------------------------------------------------------
(* Button labels of keyboard.py                                            *)

BOTAO_LISTAR == <<"U+1F4DD", " ", "V", "e", "r", " ", "L", "i", "s", "t", "a">>
BOTAO_ADICIONAR == <<"U+2795", " ", "A", "d", "i", "c", "i", "o", "n", "a", "r">>
BOTAO_REMOVER == <<"U+2796", " ", "R", "e", "m", "o", "v", "e", "r">>
BOTAO_MODO_COMPRAS ==
    <<"U+1F6D2", " ", "I", "n", "i", "c", "i", "a", "r", " ", "C", "o",
      "m", "p", "r", "a", "s">>
BOTAO_SAIR_COMPRAS ==
    <<"U+1F3E0", " ", "V", "o", "l", "t", "a", "r", " ", "a", "o", " ",
      "M", "e", "n", "u">>
BOTAO_CANCELAR ==
    <<"U+274C", " ", "C", "a", "n", "c", "e", "l", "a", "r", " ", "A",
      "U+00E7", "U+00E3", "o">>

---------------------------------------------------------------------------
(* The inputs of the model: item names, purchase utterances, texts and     *)
(* command arguments.  Each comment gives the text as a user types it.     *)

\* 'peguei leite por 4.50'
FalaLeitePor ==
    <<"p", "e", "g", "u", "e", "i", " ", "l", "e", "i", "t", "e",
      " ", "p", "o", "r", " ", "4", ".", "5", "0">>
\* 'peguei arroz 10,00'
FalaArroz ==
    <<"p", "e", "g", "u", "e", "i", " ", "a", "r", "r", "o", "z",
      " ", "1", "0", ",", "0", "0">>
\* 'comprei o pao frances custou 6'
FalaPao ==
    <<"c", "o", "m", "p", "r", "e", "i", " ", "o", " ", "p", "U+00E3",
      "o", " ", "f", "r", "a", "n", "c", "U+00EA", "s", " ", "c", "u",
      "s", "t", "o", "u", " ", "6">>
\* 'peguei leite 4.50'
FalaLeite == <<"p", "e", "g", "u", "e", "i", " ", "l", "e", "i", "t", "e", " ", "4", ".", "5", "0">>
\* 'peguei leite 4.50 reais'
FalaLeiteReais ==
    <<"p", "e", "g", "u", "e", "i", " ", "l", "e", "i", "t", "e",
      " ", "4", ".", "5", "0", " ", "r", "e", "a", "i", "s">>
\* 'Peguei LEITE 6 '
FalaLeiteDeNovo == <<"P", "e", "g", "u", "e", "i", " ", "L", "E", "I", "T", "E", " ", "6", " ">>
\* 'peguei leite'
FalaSemPreco == <<"p", "e", "g", "u", "e", "i", " ", "l", "e", "i", "t", "e">>
\* 'peguei 4.50'
FalaSemNome == <<"p", "e", "g", "u", "e", "i", " ", "4", ".", "5", "0">>
\* 'peguei o leite 7'
FalaPegueiO == <<"p", "e", "g", "u", "e", "i", " ", "o", " ", "l", "e", "i", "t", "e", " ", "7">>
\* 'leite'
NomeLeite == <<"l", "e", "i", "t", "e">>
\* ' Leite '
NomeLeiteMaiusculo == <<" ", "L", "e", "i", "t", "e", " ">>
\* 'arroz'
NomeArroz == <<"a", "r", "r", "o", "z">>
\* 'leite por'
NomeLeitePor == <<"l", "e", "i", "t", "e", " ", "p", "o", "r">>
\* 'adicionar Leite'
FalaAdicionarLeite == <<"a", "d", "i", "c", "i", "o", "n", "a", "r", " ", "L", "e", "i", "t", "e">>
\* 'Adiciona arroz'
FalaAdicionaArroz == <<"A", "d", "i", "c", "i", "o", "n", "a", " ", "a", "r", "r", "o", "z">>
\* 'remover leite'
FalaRemoverLeite == <<"r", "e", "m", "o", "v", "e", "r", " ", "l", "e", "i", "t", "e">>
\* 'tirar arroz'
FalaTirarArroz == <<"t", "i", "r", "a", "r", " ", "a", "r", "r", "o", "z">>
\* 'adicionar '
FalaAdicionarVazio == <<"a", "d", "i", "c", "i", "o", "n", "a", "r", " ">>
\* 'Estou fazendo compras'
FalaFazendoCompras ==
    <<"E", "s", "t", "o", "u", " ", "f", "a", "z", "e", "n", "d",
      "o", " ", "c", "o", "m", "p", "r", "a", "s">>
\* 'sair do modo compras'
FalaSairModoCompras ==
    <<"s", "a", "i", "r", " ", "d", "o", " ", "m", "o", "d", "o",
      " ", "c", "o", "m", "p", "r", "a", "s">>
\* 'encerrar compras'
FalaEncerrarCompras ==
    <<"e", "n", "c", "e", "r", "r", "a", "r", " ", "c", "o", "m",
      "p", "r", "a", "s">>
\* 'mostrar lista'
FalaMostrarLista == <<"m", "o", "s", "t", "r", "a", "r", " ", "l", "i", "s", "t", "a">>
\* 'peguei no modo compras 5'
FalaPegueiModo ==
    <<"p", "e", "g", "u", "e", "i", " ", "n", "o", " ", "m", "o", "d", "o", " ", "c", "o", "m", "p", "r", "a", "s", " ", "5">>
\* a name that is blank
NomeVazio == <<" ", " ">>

\* the names the list store is called with
Nomes == {NomeLeite, NomeLeiteMaiusculo, NomeArroz, NomeVazio}

\* the texts marcar_item_comprado is called with
FalasCompra ==
    {FalaLeitePor, FalaArroz, FalaPao, FalaLeite, FalaLeiteReais,
     FalaLeiteDeNovo, FalaSemPreco, FalaSemNome, FalaPegueiO}

\* the text messages the bot receives
Falas ==
    {BOTAO_LISTAR, BOTAO_ADICIONAR, BOTAO_REMOVER, BOTAO_MODO_COMPRAS,
     BOTAO_CANCELAR, NomeLeite, FalaAdicionarLeite, FalaAdicionaArroz,
     FalaRemoverLeite, FalaTirarArroz, FalaAdicionarVazio,
     FalaFazendoCompras, FalaSairModoCompras, FalaEncerrarCompras,
     FalaMostrarLista, FalaLeitePor, FalaArroz, FalaSemPreco, FalaSemNome,
     FalaPegueiModo}

\* what the speech-to-text service returns for a voice message
Transcricoes == {<<>>, FalaAdicionaArroz, FalaLeitePor}

\* context.args of /add and /remove
Args == {<<>>, <<NomeArroz>>, <<NomeLeite, <<"p", "o", "r">> >>}

\* the users whose updates arrive interleaved
Usuarios == {"u1", "u2"}

\* the texts, typed or transcribed, the two users send
FalasUsuarios ==
    {<<>>, FalaAdicionarLeite, FalaAdicionaArroz, FalaRemoverLeite,
     FalaFazendoCompras, FalaEncerrarCompras, FalaArroz}

\* the changes of user the history counts
MaxTrocas == 2

\* the longest list the model lets the dict grow to
MaxItens == 3


\* every text a function of the model is called with: the inputs, and the
\* stripped texts and the remainders the parser passes on
Entradas == Nomes \cup FalasCompra \cup Falas \cup Transcricoes \cup {join(a) : a \in Args}

TextosMemo ==
    Entradas \cup {strip(t) : t \in Entradas}
             \cup {split1(t)[2] : t \in {e \in Entradas : Len(split1(e)) >= 2}}


---------------------------------------------------------------------------
(* Data model                                                              *)

\* Optional[float] = None: the price of an item not priced yet
None == -1

\* ItemLista(nome, em_carrinho, preco), stored in the dict under chave
ItemLista(chave, nome, em_carrinho, preco) ==
    [chave |-> chave, nome |-> nome, em_carrinho |-> em_carrinho, preco |-> preco]

\* the keys of the dict
Chaves(d) == {d[i].chave : i \in 1..Len(d)}

\* `chave in estado.itens`
tem_chave(d, chave) == \E i \in 1..Len(d) : d[i].chave = chave

\* the position of a key of the dict
Posicao(d, chave) == CHOOSE i \in 1..Len(d) : d[i].chave = chave

\* `del estado.itens[chave]`: the other items keep their order
del_chave(d, chave) == SelectSeq(d, LAMBDA it : it.chave # chave)

\* nome_item.strip().lower(): the normalized key of a name
normalizar_texto(nome_item) == lower(strip(nome_item))

\* normalizar_texto, computed once for each text of the model
NormalizarMemo == [t \in TextosMemo |-> normalizar_texto(t)]

normalizar(nome_item) == NormalizarMemo[nome_item]

---------------------------------------------------------------------------
(* List store.  Each function returns the dict it leaves and the kind of   *)
(* the message it returns.                                                 *)

\* a slip the code does not make: an add of a key already there starts the
\* item afresh
adicionar_nome_sobrescreve(d, nome) ==
    IF nome = <<>> THEN [itens |-> d, msg |-> "InvalidName"]
    ELSE IF tem_chave(d, nome)
    THEN [itens |-> [d EXCEPT ![Posicao(d, nome)] = ItemLista(nome, nome, FALSE, None)],
          msg |-> "DuplicateItem"]
    ELSE [itens |-> Append(d, ItemLista(nome, nome, FALSE, None)), msg |-> "Added"]

\* the body of adicionar_item, for nome the normalized key
adicionar_nome(d, nome) ==
    IF nome = <<>> THEN [itens |-> d, msg |-> "InvalidName"]
    ELSE IF tem_chave(d, nome) THEN [itens |-> d, msg |-> "DuplicateItem"]
    ELSE [itens |-> Append(d, ItemLista(nome, nome, FALSE, None)), msg |-> "Added"]

\* a slip the code does not make: the key is trimmed and not lowercased
adicionar_item_sem_lower(d, nome_item) == adicionar_nome(d, strip(nome_item))

adicionar_item(d, nome_item) == adicionar_nome(d, normalizar(nome_item))

\* a slip the code does not make: a name that is blank or a key that is
\* absent empties the list (dict.clear() where the early return should be)
remover_nome_limpa(d, nome) ==
    IF nome = <<>> THEN [itens |-> <<>>, msg |-> "InvalidName"]
    ELSE IF ~tem_chave(d, nome) THEN [itens |-> <<>>, msg |-> "NotFound"]
    ELSE [itens |-> del_chave(d, nome), msg |-> "Removed"]

\* the body of remover_item, for nome the normalized key
remover_nome(d, nome) ==
    IF nome = <<>> THEN [itens |-> d, msg |-> "InvalidName"]
    ELSE IF ~tem_chave(d, nome) THEN [itens |-> d, msg |-> "NotFound"]
    ELSE [itens |-> del_chave(d, nome), msg |-> "Removed"]

remover_item(d, nome_item) == remover_nome(d, normalizar(nome_item))

\* the action words marcar_item_comprado removes, in the order it tries them
Palavras ==
    << <<"p", "e", "g", "u", "e", "i">>,
       <<"p", "e", "g", "u", "e", "i", " ", "o">>,
       <<"p", "e", "g", "u", "e", "i", " ", "a">>,
       <<"m", "a", "r", "c", "a", "r">>,
       <<"m", "a", "r", "q", "u", "e", "i">>,
       <<"c", "o", "l", "o", "q", "u", "e", "i">>,
       <<"c", "o", "l", "o", "q", "u", "e", "i", " ", "o">>,
       <<"c", "o", "l", "o", "q", "u", "e", "i", " ", "a">> >>

\* the for loop over the action words: the place in the list of the first
\* word the text starts with (0 when it starts with none)
primeira_palavra(texto_sem_preco) ==
    LET p[k \in 1..(Len(Palavras) + 1)] ==
            IF k > Len(Palavras) THEN 0
            ELSE IF startswith(texto_sem_preco, Palavras[k]) THEN k
            ELSE p[k + 1]
    IN  p[1]

\* the body of the loop: the word at place i is cut off the text
cortar_palavra(texto_sem_preco, i) ==
    IF i = 0 THEN texto_sem_preco
    ELSE strip(SubSeq(texto_sem_preco, Len(Palavras[i]) + 1, Len(texto_sem_preco)))

\* the loop: the first word of the list the text starts with is cut off,
\* and the loop stops
remover_palavra(texto_sem_preco) ==
    cortar_palavra(texto_sem_preco, primeira_palavra(texto_sem_preco))

\* the end of the extraction: the name is blank, or it is the item's name
\* and nome_chave its lowercase
extrair_nome(preco, nome_item) ==
    IF nome_item = <<>>
    THEN [msg |-> "EmptyItemName", nome |-> <<>>, chave |-> <<>>, preco |-> preco]
    ELSE [msg |-> "Ok", nome |-> nome_item, chave |-> lower(nome_item),
          preco |-> preco]

\* the extraction for a match that starts at position m (0: no match)
extrair_em(texto, m) ==
    IF m = 0
    THEN [msg |-> "NoAmountFound", nome |-> <<>>, chave |-> <<>>, preco |-> None]
    ELSE extrair_nome(
             float_centavos(replace_virgula(match_group(texto, m))),
             strip(remover_palavra(lower(strip(SubSeq(texto, 1, m - 1))))))

\* the price, the item name and the key (nome_chave) marcar_item_comprado
\* reads off the text
extrair_texto(texto) == extrair_em(texto, match_start(texto))

\* extrair_texto, computed once for each text of the model
ExtrairMemo == [t \in TextosMemo |-> extrair_texto(t)]

extrair(texto) == ExtrairMemo[texto]

\* a slip the code does not make: the running total is the last item's price
total_so_ultimo(d) ==
    IF Len(d) = 0 THEN 0
    ELSE IF d[Len(d)].em_carrinho /\ d[Len(d)].preco # None
    THEN d[Len(d)].preco ELSE 0

\* the loop that sums the running total over estado.itens.values()
total_parcial(d) ==
    LET total[k \in 0..Len(d)] ==
            IF k = 0 THEN 0
            ELSE total[k - 1]
                 + (IF d[k].em_carrinho /\ d[k].preco # None THEN d[k].preco ELSE 0)
    IN  total[Len(d)]

\* a slip the code does not make: an item already in the list is changed
\* and every item after it is dropped
marcar_existente_trunca(d, nome_chave, preco) ==
    Append(SubSeq(d, 1, Posicao(d, nome_chave) - 1),
           [d[Posicao(d, nome_chave)] EXCEPT !.em_carrinho = TRUE, !.preco = preco])

\* a slip the code does not make: the item of the list gets its price and
\* is not put in the cart
marcar_existente_sem_carrinho(d, nome_chave, preco) ==
    [d EXCEPT ![Posicao(d, nome_chave)] = [@ EXCEPT !.preco = preco]]

\* the else branch: the item of the list is changed in place
marcar_existente(d, nome_chave, preco) ==
    [d EXCEPT ![Posicao(d, nome_chave)] =
                  [@ EXCEPT !.em_carrinho = TRUE, !.preco = preco]]

\* the if: the item is inserted as bought, or the item of the list is changed
marcar_no_dict(d, e) ==
    IF ~tem_chave(d, e.chave)
    THEN Append(d, ItemLista(e.chave, e.nome, TRUE, e.preco))
    ELSE marcar_existente(d, e.chave, e.preco)

\* the message and the total, for novo the dict after the if
marcar_resultado(d, e, novo) ==
    [itens |-> novo,
     msg |-> IF ~tem_chave(d, e.chave) THEN "MarkedNew" ELSE "MarkedExisting",
     nome |-> e.nome, preco |-> e.preco, total |-> total_parcial(novo)]

\* a slip the code does not make: a text with no price or no name empties
\* the dict
marcar_extraido_limpa(d, e) ==
    IF e.msg # "Ok"
    THEN [itens |-> <<>>, msg |-> e.msg, nome |-> <<>>, preco |-> None, total |-> None]
    ELSE marcar_resultado(d, e, marcar_no_dict(d, e))

\* the body of marcar_item_comprado, for e the price and the name extracted
marcar_extraido(d, e) ==
    IF e.msg # "Ok"
    THEN [itens |-> d, msg |-> e.msg, nome |-> <<>>, preco |-> None, total |-> None]
    ELSE marcar_resultado(d, e, marcar_no_dict(d, e))

marcar_item_comprado(d, texto) == marcar_extraido(d, extrair(texto))

\* a slip the code does not make: the total line is part of the message
\* with no item in the cart too
listar_secoes_sempre_total(d, pendentes, comprados) ==
    [msg |-> "List",
     pendentes |-> [i \in 1..Len(pendentes) |-> pendentes[i].nome],
     comprados |-> [i \in 1..Len(comprados) |->
                       <<comprados[i].nome, comprados[i].preco>>],
     total |-> total_parcial(d)]

\* the message of listar_itens for its two sections
listar_secoes(d, pendentes, comprados) ==
    [msg |-> "List",
     pendentes |-> [i \in 1..Len(pendentes) |-> pendentes[i].nome],
     comprados |-> [i \in 1..Len(comprados) |->
                       <<comprados[i].nome, comprados[i].preco>>],
     total |-> IF Len(comprados) > 0 THEN total_parcial(d) ELSE None]

\* listar_itens: the two sections in the dict's order, the total, and
\* whether the total line is part of the message (total is None when not)
listar_itens(d) ==
    IF Len(d) = 0
    THEN [msg |-> "EmptyList", pendentes |-> <<>>, comprados |-> <<>>,
          total |-> None]
    ELSE listar_secoes(d, SelectSeq(d, LAMBDA it : ~it.em_carrinho),
                       SelectSeq(d, LAMBDA it : it.em_carrinho))

---------------------------------------------------------------------------
(* Natural-language parser                                                 *)

FazendoCompras == <<"f", "a", "z", "e", "n", "d", "o", " ", "c", "o", "m", "p", "r", "a", "s">>
ModoCompras == <<"m", "o", "d", "o", " ", "c", "o", "m", "p", "r", "a", "s">>
SairDoModoCompras ==
    <<"s", "a", "i", "r", " ", "d", "o", " ", "m", "o", "d", "o", " ", "c", "o", "m", "p", "r", "a", "s">>
EncerrarCompras ==
    <<"e", "n", "c", "e", "r", "r", "a", "r", " ", "c", "o", "m", "p", "r", "a", "s">>

\* the purchase verbs of step 2
Prefixos ==
    { <<"p", "e", "g", "u", "e", "i">>, <<"m", "a", "r", "c", "a", "r">>,
      <<"m", "a", "r", "q", "u", "e", "i">>, <<"c", "o", "l", "o", "q", "u", "e", "i">> }

\* the add verbs of step 3 and the remove verbs of step 4, each with its space
VerbosAdicionar ==
    { <<"a", "d", "i", "c", "i", "o", "n", "a", "r", " ">>,
      <<"a", "d", "i", "c", "i", "o", "n", "a", " ">> }
VerbosRemover ==
    { <<"r", "e", "m", "o", "v", "e", "r", " ">>, <<"r", "e", "m", "o", "v", "e", " ">>,
      <<"t", "i", "r", "a", "r", " ">> }

\* a slip the code does not make: step 5 knows only "listar" and
\* "mostrar lista"
PalavrasListarSemVer ==
    { <<"l", "i", "s", "t", "a", "r">>,
      <<"m", "o", "s", "t", "r", "a", "r", " ", "l", "i", "s", "t", "a">> }

\* the list keywords of step 5
PalavrasListar ==
    { <<"l", "i", "s", "t", "a", "r">>,
      <<"m", "o", "s", "t", "r", "a", "r", " ", "l", "i", "s", "t", "a">>,
      <<"v", "e", "r", " ", "l", "i", "s", "t", "a">> }

\* the reply of a handler: the session it leaves, the branch it took
\* (intent) and the kind of its message
Resposta(d, modo, intent, msg, nome, preco, total) ==
    [itens |-> d, modo_compras |-> modo, intent |-> intent, msg |-> msg,
     nome |-> nome, preco |-> preco, total |-> total]

\* the reply with what adicionar_item or remover_item returned
resposta_item(modo, intent, r) ==
    Resposta(r.itens, modo, intent, r.msg, <<>>, None, None)

\* the reply with what marcar_item_comprado returned
resposta_marcar(modo, intent, r) ==
    Resposta(r.itens, modo, intent, r.msg, r.nome, r.preco, r.total)

\* the reply with what listar_itens returned
resposta_lista(d, modo, intent, l) ==
    Resposta(d, modo, intent, l.msg, <<>>, None, l.total)

\* a slip the code does not make: a text no rule knows is taken as the
\* name of an item to add
nao_entendeu_adiciona(d, modo, texto_original) ==
    resposta_item(modo, "AddDirect", adicionar_item(d, texto_original))

\* step 6: no rule knows the text
nao_entendeu(d, modo, texto_original) ==
    Resposta(d, modo, "Unrecognized", "Unrecognized", <<>>, None, None)

\* a slip the code does not make: step 2 takes a purchase verb with
\* shopping mode off too
resolve_lower_sem_modo(texto, texto_lower, modo) ==
    IF texto = <<>> THEN "EmptyText"
    ELSE IF contains(texto_lower, FazendoCompras) \/ contains(texto_lower, ModoCompras)
    THEN "EnterShoppingMode"
    ELSE IF contains(texto_lower, SairDoModoCompras)
            \/ contains(texto_lower, EncerrarCompras)
    THEN "ExitShoppingMode"
    ELSE IF \E pref \in Prefixos : startswith(texto_lower, pref)
    THEN "MarkPurchased"
    ELSE IF \E v \in VerbosAdicionar : startswith(texto_lower, v)
    THEN "AddDirect"
    ELSE IF \E v \in VerbosRemover : startswith(texto_lower, v)
    THEN "RemoveDirect"
    ELSE IF \E p \in PalavrasListar : contains(texto_lower, p)
    THEN "ShowList"
    ELSE "Unrecognized"

\* the if cascade of processar_texto_natural: the branch a text takes
resolve_lower(texto, texto_lower, modo) ==
    IF texto = <<>> THEN "EmptyText"
    ELSE IF contains(texto_lower, FazendoCompras) \/ contains(texto_lower, ModoCompras)
    THEN "EnterShoppingMode"
    ELSE IF contains(texto_lower, SairDoModoCompras)
            \/ contains(texto_lower, EncerrarCompras)
    THEN "ExitShoppingMode"
    ELSE IF modo /\ \E pref \in Prefixos : startswith(texto_lower, pref)
    THEN "MarkPurchased"
    ELSE IF \E v \in VerbosAdicionar : startswith(texto_lower, v)
    THEN "AddDirect"
    ELSE IF \E v \in VerbosRemover : startswith(texto_lower, v)
    THEN "RemoveDirect"
    ELSE IF \E p \in PalavrasListar : contains(texto_lower, p)
    THEN "ShowList"
    ELSE "Unrecognized"

\* texto_original = texto.strip(), texto_lower = texto_original.lower()
resolve(texto, modo) == resolve_lower(texto, lower(strip(texto)), modo)

\* what the parser reads off a text alone: texto_original, its split and
\* the branch it takes with shopping mode off and on
analisar_texto(texto) ==
    [texto_original |-> strip(texto),
     partes |-> split1(strip(texto)),
     intent |-> [modo \in BOOLEAN |-> resolve(texto, modo)]]

\* analisar_texto, computed once for each text of the model
AnalisarMemo == [t \in TextosMemo |-> analisar_texto(t)]

analisar(texto) == AnalisarMemo[texto]

\* the body of the branch the text takes
processar_ramo(d, modo, a, intent) ==
    CASE intent = "EmptyText" ->
           Resposta(d, modo, intent, "EmptyText", <<>>, None, None)
      [] intent = "EnterShoppingMode" ->
           Resposta(d, TRUE, intent, "EnterShoppingMode", <<>>, None, None)
      [] intent = "ExitShoppingMode" ->
           Resposta(d, FALSE, intent, "ExitShoppingMode", <<>>, None, None)
      [] intent = "MarkPurchased" ->
           resposta_marcar(modo, intent, marcar_item_comprado(d, a.texto_original))
      [] intent = "AddDirect" ->
           IF Len(a.partes) < 2
           THEN Resposta(d, modo, intent, "EmptyArgument", <<>>, None, None)
           ELSE resposta_item(modo, intent, adicionar_item(d, a.partes[2]))
      [] intent = "RemoveDirect" ->
           IF Len(a.partes) < 2
           THEN Resposta(d, modo, intent, "EmptyArgument", <<>>, None, None)
           ELSE resposta_item(modo, intent, remover_item(d, a.partes[2]))
      [] intent = "ShowList" -> resposta_lista(d, modo, intent, listar_itens(d))
      [] intent = "Unrecognized" -> nao_entendeu(d, modo, a.texto_original)

\* the parser, for a what it reads off the text
processar_analise(d, modo, a) == processar_ramo(d, modo, a, a.intent[modo])

processar_texto_natural(d, modo, texto) == processar_analise(d, modo, analisar(texto))

\* /add and /remove: context.args is the command's words
add_command(d, modo, args) ==
    IF Len(args) = 0
    THEN Resposta(d, modo, "add_command", "Usage", <<>>, None, None)
    ELSE resposta_item(modo, "add_command", adicionar_item(d, join(args)))

remove_command(d, modo, args) ==
    IF Len(args) = 0
    THEN Resposta(d, modo, "remove_command", "Usage", <<>>, None, None)
    ELSE resposta_item(modo, "remove_command", remover_item(d, join(args)))

list_command(d, modo) == resposta_lista(d, modo, "list_command", listar_itens(d))

\* a slip the code does not make: /compras starts with an empty list
compras_command_limpa(d, modo) ==
    Resposta(<<>>, TRUE, "compras_command", "EnterShoppingMode", <<>>, None, None)

compras_command(d, modo) ==
    Resposta(d, TRUE, "compras_command", "EnterShoppingMode", <<>>, None, None)

\* /start and /help make sure the session exists and send the help text
start(d, modo) ==
    Resposta(d, modo, "start", "Help", <<>>, None, None)
---------------------------------------------------------------------------
(* State machine                                                           *)

\* EstadoUsuario(): no item, shopping mode off
EstadoUsuario == [itens |-> <<>>, modo_compras |-> FALSE]

\* a slip the code does not make: every access starts the session afresh
get_user_state_reinicia(ud) == <<EstadoUsuario>>

\* get_user_state on the user_data of one user: the user_data it leaves,
\* whose "estado" is the session it returns
get_user_state(ud) == IF ud = <<>> THEN <<EstadoUsuario>> ELSE ud

\* the session a handler leaves, read off its reply
estado_de(r) == [itens |-> r.itens, modo_compras |-> r.modo_compras]

\* no operation yet
Nada == [op |-> "nenhuma", texto |-> <<>>, msg |-> "", antes |-> <<>>]

\* the button labels the history keeps track of
BotoesLembrados ==
    {BOTAO_ADICIONAR, BOTAO_REMOVER, BOTAO_CANCELAR, BOTAO_LISTAR}

\* The history keeps the last operation in full (ult).  Of the operation
\* before it (ant) it keeps what a two-step property reads: a call of
\* adicionar_item, or a text message that is a button label; of the one
\* before that (ant2), the button label.
Lembrar(u) ==
    IF u.op = "adicionar_item" \/ (u.op = "text_message" /\ u.texto \in BotoesLembrados)
    THEN [op |-> u.op, texto |-> u.texto, msg |-> u.msg, antes |-> u.antes]
    ELSE Nada

Init ==
    /\ itens = <<>>
    /\ modo_compras = FALSE
    /\ ult = [op |-> "nenhuma", texto |-> <<>>, intent |-> "", msg |-> "",
              antes |-> <<>>, modo_antes |-> FALSE, nome |-> <<>>,
              preco |-> None, total |-> None]
    /\ ant = Nada
    /\ ant2 = <<>>
    /\ entrou = FALSE
    /\ user_data = [u \in Usuarios |-> <<>>]
    /\ sozinho = [u \in Usuarios |-> EstadoUsuario]
    /\ quem = "ninguem"
    /\ trocas = 0

\* one operation op on input texto with reply r
Passo(op, texto, r) ==
    /\ Len(r.itens) <= MaxItens
    /\ itens' = r.itens
    /\ modo_compras' = r.modo_compras
    /\ ult' = [op |-> op, texto |-> texto, intent |-> r.intent, msg |-> r.msg,
               antes |-> itens, modo_antes |-> modo_compras, nome |-> r.nome,
               preco |-> r.preco, total |-> r.total]
    /\ ant' = Lembrar(ult)
    /\ ant2' = IF ant.op = "text_message" THEN ant.texto ELSE <<>>
    /\ entrou' = (entrou \/ r.modo_compras)
    /\ UNCHANGED <<user_data, sozinho, quem, trocas>>

(* the handlers of the bot *)

TextMessage(texto) ==
    Passo("text_message", texto, processar_texto_natural(itens, modo_compras, texto))

\* the transcription fails and the handler returns, or its text is parsed
VoiceMessage(texto) ==
    \/ Passo("voice_message", <<>>,
             Resposta(itens, modo_compras, "voice_message", "TranscriptionError",
                      <<>>, None, None))
    \/ Passo("voice_message", texto,
             processar_texto_natural(itens, modo_compras, texto))

AddCommand(args) == Passo("add_command", join(args), add_command(itens, modo_compras, args))

RemoveCommand(args) ==
    Passo("remove_command", join(args), remove_command(itens, modo_compras, args))

ListCommand == Passo("list_command", <<>>, list_command(itens, modo_compras))

ComprasCommand == Passo("compras_command", <<>>, compras_command(itens, modo_compras))

Start == Passo("start", <<>>, start(itens, modo_compras))

Next ==
    \/ \E texto \in Falas : TextMessage(texto)
    \/ \E texto \in Transcricoes : VoiceMessage(texto)
    \/ \E args \in Args : AddCommand(args)
    \/ \E args \in Args : RemoveCommand(args)
    \/ ListCommand
    \/ ComprasCommand
    \/ Start

Spec == Init /\ [][Next]_vars

(* the list store, its functions called directly *)

Adicionar(nome_item) ==
    Passo("adicionar_item", nome_item,
          resposta_item(modo_compras, "adicionar_item", adicionar_item(itens, nome_item)))

Remover(nome_item) ==
    Passo("remover_item", nome_item,
          resposta_item(modo_compras, "remover_item", remover_item(itens, nome_item)))

Marcar(texto) ==
    Passo("marcar_item_comprado", texto,
          resposta_marcar(modo_compras, "marcar_item_comprado",
                          marcar_item_comprado(itens, texto)))

Listar ==
    Passo("listar_itens", <<>>,
          resposta_lista(itens, modo_compras, "listar_itens", listar_itens(itens)))

StoreNext ==
    \/ \E nome_item \in Nomes : Adicionar(nome_item)
    \/ \E nome_item \in Nomes : Remover(nome_item)
    \/ \E texto \in FalasCompra : Marcar(texto)
    \/ Listar

StoreSpec == Init /\ [][StoreNext]_vars


(* the handlers of the bot, on the user_data of two users *)

\* the parser on the session get_user_state returned
texto_no_estado(estado, texto) ==
    <<estado_de(processar_texto_natural(estado.itens, estado.modo_compras, texto))>>

\* text_message and voice_message on the user_data of a user: an empty
\* text is answered before get_user_state is called
texto_em(ud, texto) ==
    IF texto = <<>> THEN ud ELSE texto_no_estado(get_user_state(ud)[1], texto)

\* compras_command on the session get_user_state returned
compras_no_estado(estado) ==
    <<estado_de(compras_command(estado.itens, estado.modo_compras))>>

\* one update of user u: it leaves ud as the user_data of u, and s is the
\* session of u had no other user been there
PassoUsuario(u, ud, s) ==
    /\ \A i \in 1..Len(ud) : Len(ud[i].itens) <= MaxItens
    /\ user_data' = [user_data EXCEPT ![u] = ud]
    /\ sozinho' = [sozinho EXCEPT ![u] = s]
    /\ quem' = u
    /\ trocas' = IF quem \notin {u, "ninguem"} /\ trocas < MaxTrocas
                 THEN trocas + 1 ELSE trocas
    /\ UNCHANGED <<itens, modo_compras, ult, ant, ant2, entrou>>

UsuarioTexto(u, texto) ==
    PassoUsuario(u, texto_em(user_data[u], texto),
                 estado_de(processar_texto_natural(sozinho[u].itens,
                                                   sozinho[u].modo_compras, texto)))

UsuarioCompras(u) ==
    PassoUsuario(u, compras_no_estado(get_user_state(user_data[u])[1]),
                 estado_de(compras_command(sozinho[u].itens, sozinho[u].modo_compras)))

UsuarioStart(u) == PassoUsuario(u, get_user_state(user_data[u]), sozinho[u])

UsersNext ==
    \/ \E u \in Usuarios, texto \in FalasUsuarios : UsuarioTexto(u, texto)
    \/ \E u \in Usuarios : UsuarioCompras(u)
    \/ \E u \in Usuarios : UsuarioStart(u)

UsersSpec == Init /\ [][UsersNext]_vars


---------------------------------------------------------------------------
(* Properties                                                              *)

\* the last operation is marcar_item_comprado and it marked an item
Marcou ==
    /\ ult.op = "marcar_item_comprado"
    /\ ult.msg \in {"MarkedNew", "MarkedExisting"}

\* the sum of price over the items in the cart that have a price, taken key
\* by key over the keys of the dict
SomaCarrinho(d) ==
    LET comPreco == {i \in 1..Len(d) : d[i].em_carrinho /\ d[i].preco # None}
        soma[S \in SUBSET comPreco] ==
            IF S = {} THEN 0
            ELSE LET i == CHOOSE x \in S : TRUE
                 IN  d[i].preco + soma[S \ {i}]
    IN  soma[comPreco]

\* every button label of keyboard.py the model sends
Botoes ==
    {BOTAO_LISTAR, BOTAO_ADICIONAR, BOTAO_REMOVER, BOTAO_MODO_COMPRAS,
     BOTAO_SAIR_COMPRAS, BOTAO_CANCELAR}

\* a text that is an item name and nothing else
NomesSimples == {NomeLeite}

\* 'pao frances', with its accents
PaoFrances ==
    <<"p", "U+00E3", "o", " ", "f", "r", "a", "n", "c", "U+00EA", "s">>

\* the item leite in the cart at 4.50
LeiteNoCarrinho == ItemLista(NomeLeite, NomeLeite, TRUE, 450)

\* the last two operations are Add(n) then Remove(n), with the same name n
AddThenRemove ==
    /\ ult.op = "remover_item"
    /\ ant.op = "adicionar_item"
    /\ ult.texto = ant.texto

\* C1 as stated: Add(n) and then Remove(n) leaves the item map exactly as
\* it was before the Add, for every name n and every list state, the states
\* where the key of n is already present included.
C1_RoundTrip == AddThenRemove => itens = ant.antes

\* C1, amended: for every name n whose normalized key is not in the list,
\* Add(n) and then Remove(n) leaves the item map (items, their fields and
\* their order) exactly as it was before the Add.
C1_RoundTripAbsent ==
    /\ (AddThenRemove /\ ~tem_chave(ant.antes, normalizar(ant.texto)))
           => itens = ant.antes
    /\ \A n \in Nomes :
           ~tem_chave(itens, normalizar(n))
               => remover_item(adicionar_item(itens, n).itens, n).itens = itens

\* C1, reached: a name that is not normalized was added to a list that holds
\* another item, then removed, and the list is the one before the Add
C1_Witness ==
    /\ AddThenRemove
    /\ ult.texto = NomeLeiteMaiusculo
    /\ ant.msg = "Added"
    /\ ult.msg = "Removed"
    /\ Len(ant.antes) >= 1
    /\ itens = ant.antes

\* C2: Add(n) on a list that holds an item under the normalized key of n
\* returns DuplicateItem and leaves the item map unchanged, the item's
\* in_cart flag and price included.
C2_DuplicateUnchanged ==
    (ult.op = "adicionar_item" /\ tem_chave(ult.antes, normalizar(ult.texto)))
        => (ult.msg = "DuplicateItem" /\ itens = ult.antes)

\* C2, reached: ' Leite ' was added to a list that holds leite in the cart
\* with a price
C2_Witness ==
    /\ ult.op = "adicionar_item"
    /\ ult.texto = NomeLeiteMaiusculo
    /\ ult.msg = "DuplicateItem"
    /\ \E i \in 1..Len(itens) : itens[i] = LeiteNoCarrinho

\* C3: Remove(n) with the normalized key of n absent returns NotFound and
\* leaves the item map unchanged; Remove with a blank name returns
\* InvalidName and leaves it unchanged.
C3_RemoveAbsentUnchanged ==
    ult.op = "remover_item" =>
        /\ normalizar(ult.texto) = <<>>
               => (ult.msg = "InvalidName" /\ itens = ult.antes)
        /\ (normalizar(ult.texto) # <<>>
                /\ ~tem_chave(ult.antes, normalizar(ult.texto)))
               => (ult.msg = "NotFound" /\ itens = ult.antes)

\* C3, reached: a key that is absent was removed from a list that holds
\* other items
C3_Witness ==
    /\ ult.op = "remover_item"
    /\ ult.msg = "NotFound"
    /\ Len(itens) >= 2

\* C4: the running total a successful MarkPurchased reports is the sum of
\* price over the items now in the list with in_cart true and a price, each
\* counted once: marking leite at 4.50 then arroz at 10.00 reports 14.50,
\* and marking leite again at 6.00 replaces its price.
C4_RunningTotal ==
    Marcou =>
        /\ ult.total = SomaCarrinho(itens)
        /\ (ult.texto = FalaArroz /\ ult.antes = <<LeiteNoCarrinho>>)
               => ult.total = 1450
        /\ (ult.texto = FalaLeiteDeNovo /\ ult.antes = <<LeiteNoCarrinho>>)
               => ult.total = 600

\* C4, reached: arroz was marked at 10,00 in a list that holds leite at 4.50
\* and the total reported is 14.50
C4_Witness ==
    /\ Marcou
    /\ ult.texto = FalaArroz
    /\ ult.antes = <<LeiteNoCarrinho>>
    /\ ult.total = 1450

\* C5: a successful MarkPurchased that extracts name k and amount a leaves
\* items[k] with in_cart true and price a; the list grows by that one item
\* when k was absent and keeps its size when k was present; every other item
\* is unchanged.
C5_MarkFrame ==
    Marcou =>
        LET k == lower(ult.nome)
        IN  /\ tem_chave(itens, k)
            /\ itens[Posicao(itens, k)].em_carrinho
            /\ itens[Posicao(itens, k)].preco = ult.preco
            /\ ~tem_chave(ult.antes, k) => Len(itens) = Len(ult.antes) + 1
            /\ tem_chave(ult.antes, k) => Len(itens) = Len(ult.antes)
            /\ \A i \in 1..Len(ult.antes) :
                   ult.antes[i].chave # k => itens[i] = ult.antes[i]
            /\ Cardinality(Chaves(itens)) = Len(itens)

\* C5, reached: an item of the list that is not its last item was marked
C5_Witness ==
    /\ Marcou
    /\ ult.msg = "MarkedExisting"
    /\ Len(itens) >= 2
    /\ itens[1].chave = lower(ult.nome)
    /\ ~ult.antes[1].em_carrinho

\* C6: after the begin-add button label is processed, the next text of the
\* user that is no button label is taken whole as the item name and added
\* to the list.
C6_BeginAddCapturesNext ==
    (/\ ult.op = "text_message"
     /\ ant.op = "text_message"
     /\ ant.texto = BOTAO_ADICIONAR
     /\ ult.texto \notin Botoes)
        => (/\ tem_chave(itens, normalizar(ult.texto))
            /\ ult.msg \in {"Added", "DuplicateItem"})

\* C7: when the begin-add button label came just before and the text is the
\* show-list label, the parser shows the list, no item named after the label
\* is added, and the text after it is not taken as the name of an add.
C7_ShowListNotCaptured ==
    /\ (/\ ult.op = "text_message"
        /\ ult.texto = BOTAO_LISTAR
        /\ ant.texto = BOTAO_ADICIONAR)
           => (/\ ult.intent = "ShowList"
               /\ itens = ult.antes
               /\ ~tem_chave(itens, normalizar(BOTAO_LISTAR)))
    /\ (/\ ult.op = "text_message"
        /\ ult.texto \in NomesSimples
        /\ ant.texto = BOTAO_LISTAR
        /\ ant2 = BOTAO_ADICIONAR)
           => itens = ult.antes

\* C7, reached: the show-list label was sent right after the begin-add label
\* and the list, which holds an item, was shown
C7_Witness ==
    /\ ult.op = "text_message"
    /\ ult.texto = BOTAO_LISTAR
    /\ ant.texto = BOTAO_ADICIONAR
    /\ ult.intent = "ShowList"
    /\ ult.msg = "List"
    /\ itens = ult.antes

\* C8: the cancel label that comes after a begin-add or begin-remove label
\* leaves the item list unchanged, and a plain item name that follows is
\* resolved as Unrecognized and adds or removes no item.
C8_CancelThenName ==
    /\ (/\ ult.op = "text_message"
        /\ ult.texto = BOTAO_CANCELAR
        /\ ant.texto \in {BOTAO_ADICIONAR, BOTAO_REMOVER})
           => itens = ult.antes
    /\ (/\ ult.op = "text_message"
        /\ ult.texto \in NomesSimples
        /\ ant.texto = BOTAO_CANCELAR
        /\ ant2 \in {BOTAO_ADICIONAR, BOTAO_REMOVER})
           => (ult.intent = "Unrecognized" /\ itens = ult.antes)

\* C8, reached: begin-add label, cancel label, then the name of an item the
\* list holds; the name was not understood and the list is as before
C8_Witness ==
    /\ ult.op = "text_message"
    /\ ult.texto = NomeLeite
    /\ ant.texto = BOTAO_CANCELAR
    /\ ant2 = BOTAO_ADICIONAR
    /\ ult.intent = "Unrecognized"
    /\ tem_chave(itens, NomeLeite)
    /\ itens = ult.antes

\* C9: the extractor removes the leading filler phrase and the trailing
\* filler suffix: 'peguei leite por 4.50' gives (leite, 4.50) and is stored
\* under the key leite, 'peguei arroz 10,00' gives (arroz, 10.00) and
\* 'comprei o pao frances custou 6' gives (pao frances, 6.00).
C9_ExtractorExamples ==
    ult.op = "marcar_item_comprado" =>
        /\ ult.texto = FalaLeitePor
               => (/\ ult.nome = NomeLeite
                   /\ ult.preco = 450
                   /\ tem_chave(itens, NomeLeite)
                   /\ ~tem_chave(itens, NomeLeitePor))
        /\ ult.texto = FalaArroz => (ult.nome = NomeArroz /\ ult.preco = 1000)
        /\ ult.texto = FalaPao => (ult.nome = PaoFrances /\ ult.preco = 600)

\* C10: a text with words after its last number ('peguei leite 4.50 reais')
\* still succeeds, with that amount and the name from the text before the
\* number.
C10_TextAfterNumber ==
    (ult.op = "marcar_item_comprado" /\ ult.texto = FalaLeiteReais)
        => (/\ ult.msg \in {"MarkedNew", "MarkedExisting"}
            /\ ult.nome = NomeLeite
            /\ ult.preco = 450)

\* the kinds of message of a MarkPurchased that fails
FalhasMarcar == {"NoAmountFound", "EmptyItemName"}

\* the last operation is a text or a voice message the parser took as a
\* purchase
ParserMarcou ==
    /\ ult.op \in {"text_message", "voice_message"}
    /\ ult.intent = "MarkPurchased"

\* C11: a MarkPurchased that fails (no amount in the text, or a blank item
\* name) answers with that guidance message and leaves the session
\* unchanged: the items, their in_cart flags and prices, and shopping_mode.
C11_MarkFailureUnchanged ==
    /\ (ParserMarcou /\ ult.msg \in FalhasMarcar)
           => (itens = ult.antes /\ modo_compras = ult.modo_antes)
    /\ ParserMarcou
           => (ult.msg \in FalhasMarcar <=> extrair(strip(ult.texto)).msg # "Ok")
    /\ \A t \in FalasCompra :
           extrair(t).msg # "Ok"
               => (/\ marcar_item_comprado(itens, t).itens = itens
                   /\ marcar_item_comprado(itens, t).msg \in FalhasMarcar)

\* C11, reached: in shopping mode, 'peguei 4.50' was answered with the
\* blank-name guidance and the list, which holds an item in the cart, is
\* as before
C11_Witness ==
    /\ ParserMarcou
    /\ ult.texto = FalaSemNome
    /\ ult.msg = "EmptyItemName"
    /\ modo_compras
    /\ \E i \in 1..Len(itens) : itens[i].em_carrinho
    /\ itens = ult.antes

\* C12: in every reachable session, after any sequence of texts, voice
\* messages and commands, every item that has a price is in the cart (an
\* item that is not in the cart has no price).
C12_PriceOnlyInCart ==
    \A i \in 1..Len(itens) : itens[i].preco # None => itens[i].em_carrinho

\* C12, reached: an item that was added pending was marked in shopping mode
\* and has a price, next to an item that is pending and has none
C12_Witness ==
    /\ ParserMarcou
    /\ ult.msg = "MarkedExisting"
    /\ \E i \in 1..Len(itens) : itens[i].em_carrinho /\ itens[i].preco # None
    /\ \E i \in 1..Len(itens) : ~itens[i].em_carrinho /\ itens[i].preco = None

\* C13: from any session state, a text that is one of the exit phrases
\* ('sair do modo compras', 'encerrar compras') resolves to
\* ExitShoppingMode and leaves shopping_mode false.
C13_ExitLeavesMode ==
    (/\ ult.op \in {"text_message", "voice_message"}
     /\ lower(strip(ult.texto)) \in {SairDoModoCompras, EncerrarCompras})
        => (ult.intent = "ExitShoppingMode" /\ ~modo_compras)

\* C14: a text exactly equal to the enter-shopping-mode button label
\* resolves to EnterShoppingMode in every session state and sets
\* shopping_mode to true.
C14_ButtonEntersMode ==
    (ult.op = "text_message" /\ ult.texto = BOTAO_MODO_COMPRAS)
        => (ult.intent = "EnterShoppingMode" /\ modo_compras)

\* the session of a user: the "estado" of its user_data, or the session
\* its first access will create
sessao(ud) == IF ud = <<>> THEN EstadoUsuario ELSE ud[1]

\* C15: however the updates of two users interleave, the session of each
\* user (items and shopping_mode) is the one its own updates alone, in
\* their order, lead to; the session is created empty with shopping mode
\* off at the first access and no later access starts it afresh.
C15_UsersIsolated ==
    /\ \A u \in Usuarios : sessao(user_data[u]) = sozinho[u]
    /\ \A u \in Usuarios :
           /\ get_user_state(<<>>) = <<EstadoUsuario>>
           /\ get_user_state(user_data[u]) # <<>>
           /\ user_data[u] # <<>> => get_user_state(user_data[u]) = user_data[u]

\* C15, reached: the two users took turns at least twice and hold
\* different lists, one of them in shopping mode and the other not
C15_Witness ==
    /\ trocas >= 2
    /\ user_data["u1"] # <<>> /\ user_data["u2"] # <<>>
    /\ Len(user_data["u1"][1].itens) >= 1
    /\ Len(user_data["u2"][1].itens) >= 1
    /\ user_data["u1"][1].itens # user_data["u2"][1].itens
    /\ user_data["u1"][1].modo_compras
    /\ ~user_data["u2"][1].modo_compras

\* the last operation is a text or a voice message that starts with a
\* purchase verb, processed with shopping mode on
VerboEmModoCompras ==
    /\ ult.op \in {"text_message", "voice_message"}
    /\ ult.modo_antes
    /\ \E pref \in Prefixos : startswith(lower(strip(ult.texto)), pref)

\* the text of the last operation holds a phrase that switches the mode
TemFraseDeModo ==
    \E f \in {FazendoCompras, ModoCompras, EncerrarCompras} :
        contains(lower(strip(ult.texto)), f)

\* an item is in the cart only if a purchase text put it there while
\* shopping mode was on; with shopping mode never entered no item is in
\* the cart or has a price
SoMarcaEmModoCompras ==
    /\ ~entrou => \A i \in 1..Len(itens) :
                      ~itens[i].em_carrinho /\ itens[i].preco = None
    /\ \A i \in 1..Len(itens) :
           (/\ itens[i].em_carrinho \/ itens[i].preco # None
            /\ \A j \in 1..Len(ult.antes) : ult.antes[j] # itens[i])
               => (ParserMarcou /\ ult.modo_antes)

\* C16 as stated: items are marked only while shopping mode is on, and
\* while it is on every text that starts with a purchase verb is routed to
\* MarkPurchased, never to AddDirect or RemoveDirect.
C16_VerbsMarkOnlyInMode ==
    /\ SoMarcaEmModoCompras
    /\ VerboEmModoCompras => ult.intent = "MarkPurchased"

\* C16, amended: items are marked only while shopping mode is on, and
\* while it is on every text that starts with a purchase verb and holds no
\* mode-switch phrase ('fazendo compras', 'modo compras', 'encerrar
\* compras') is routed to MarkPurchased, never to AddDirect or RemoveDirect;
\* a text that holds such a phrase switches the mode and marks nothing.
C16_VerbsMarkUnlessModePhrase ==
    /\ SoMarcaEmModoCompras
    /\ (VerboEmModoCompras /\ ~TemFraseDeModo) => ult.intent = "MarkPurchased"
    /\ (VerboEmModoCompras /\ TemFraseDeModo)
           => (/\ ult.intent \in {"EnterShoppingMode", "ExitShoppingMode"}
               /\ itens = ult.antes)

\* C16, reached: with shopping mode on, 'peguei leite por 4.50' was routed
\* to MarkPurchased and put a new item in the cart
C16_Witness ==
    /\ VerboEmModoCompras
    /\ ult.texto = FalaLeitePor
    /\ ult.intent = "MarkPurchased"
    /\ ult.msg = "MarkedNew"
    /\ entrou
    /\ itens[Len(itens)].em_carrinho

\* C17: the leading filler phrases are tried longest first and at most one
\* is removed: 'peguei o leite 7' gives the item name leite, stored under
\* the key leite, with no article 'o ' left at the front of the key.
C17_LongestFillerFirst ==
    (ult.op = "marcar_item_comprado" /\ ult.texto = FalaPegueiO)
        => (/\ ult.nome = NomeLeite
            /\ tem_chave(itens, NomeLeite)
            /\ \A i \in 1..Len(itens) : ~startswith(itens[i].chave, <<"o", " ">>))

\* C18: a text that is an add verb with its trailing space and no item
\* name ('adicionar ') is resolved by the add rule and answered with the
\* EmptyArgument guidance for add, not with the Unrecognized reply, and
\* the item list is left unchanged.
C18_AddVerbAlone ==
    (ult.op = "text_message" /\ ult.texto = FalaAdicionarVazio)
        => (/\ ult.intent = "AddDirect"
            /\ ult.msg = "EmptyArgument"
            /\ itens = ult.antes)

\* the message l is the rendering of the dict d: every item is in exactly
\* one section, the pending ones by name and the ones in the cart by name
\* and price, each section in the dict's order; the total line is there
\* exactly when an item is in the cart and is the sum of their prices; an
\* empty dict gives the empty-list message alone
RenderOk(d, l) ==
    /\ Len(d) = 0 <=> l.msg = "EmptyList"
    /\ Len(d) = 0 => (l.pendentes = <<>> /\ l.comprados = <<>> /\ l.total = None)
    /\ Len(l.pendentes) + Len(l.comprados) = Len(d)
    /\ \A i \in 1..Len(d) :
           /\ ~d[i].em_carrinho
                  => (/\ \E j \in 1..Len(l.pendentes) : l.pendentes[j] = d[i].nome
                      /\ \A j \in 1..Len(l.comprados) : l.comprados[j][1] # d[i].nome)
           /\ d[i].em_carrinho
                  => (/\ \E j \in 1..Len(l.comprados) :
                             l.comprados[j] = <<d[i].nome, d[i].preco>>
                      /\ \A j \in 1..Len(l.pendentes) : l.pendentes[j] # d[i].nome)
    /\ l.pendentes = [j \in 1..Len(l.pendentes) |->
                         SelectSeq(d, LAMBDA it : ~it.em_carrinho)[j].nome]
    /\ l.total # None <=> \E i \in 1..Len(d) : d[i].em_carrinho
    /\ l.total # None => l.total = SomaCarrinho(d)

\* C19: Render never changes the session, puts every item in exactly one
\* section (pending when in_cart is false, in cart when it is true), has a
\* total line exactly when an item is in the cart, the total being the sum
\* of the prices of the items in the cart, and on an empty list returns
\* the empty-list message only.
C19_RenderSections ==
    /\ RenderOk(itens, listar_itens(itens))
    /\ ult.op = "listar_itens"
           => (/\ itens = ult.antes
               /\ modo_compras = ult.modo_antes
               /\ ult.msg = listar_itens(itens).msg
               /\ ult.total = listar_itens(itens).total)

\* C19, reached: a list with a pending item and an item in the cart was
\* rendered, with the total line
C19_Witness ==
    /\ ult.op = "listar_itens"
    /\ ult.msg = "List"
    /\ \E i \in 1..Len(itens) : ~itens[i].em_carrinho
    /\ \E i \in 1..Len(itens) : itens[i].em_carrinho /\ ult.total = itens[i].preco

\* the branches and commands that switch the mode, and those that may
\* write the item map
RamosDeModo == {"EnterShoppingMode", "ExitShoppingMode", "compras_command"}
RamosDeLista ==
    {"AddDirect", "RemoveDirect", "MarkPurchased", "add_command", "remove_command"}

\* C20: only the mode switches change shopping_mode and only the list
\* operations change the item map: add, remove, mark-purchased, show-list
\* and unrecognized texts and /add, /remove, /list leave shopping_mode
\* unchanged; the enter and exit texts and /compras leave the item map
\* unchanged; an unrecognized text leaves the whole session unchanged.
C20_Frame ==
    /\ ult.intent \in RamosDeLista \cup {"ShowList", "list_command", "Unrecognized"}
           => modo_compras = ult.modo_antes
    /\ ult.intent \in RamosDeModo => itens = ult.antes
    /\ ult.intent = "Unrecognized"
           => (itens = ult.antes /\ modo_compras = ult.modo_antes)
    /\ modo_compras # ult.modo_antes => ult.intent \in RamosDeModo
    /\ itens # ult.antes => ult.intent \in RamosDeLista

\* C20, reached: /compras turned shopping mode on in a session whose list
\* holds items, and the list is as before
C20_Witness ==
    /\ ult.op = "compras_command"
    /\ ~ult.modo_antes
    /\ modo_compras
    /\ Len(itens) >= 2
    /\ itens = ult.antes
=============================================================================
